---- MODULE Spec2Model ----
(***************************************************************************)
(* Model of the MAX -> Telegram bridge: the watermark store (StateStore),  *)
(* the subscription and catalog stores, the fan-out engine                 *)
(* (handle_message / send_attachments), the startup replay (on_start) and  *)
(* the subscribe / unsubscribe callbacks, the admin handlers of the bot,   *)
(* the JSON documents the three stores persist, and the restart of the     *)
(* process after a crash.                                                  *)
(*                                                                         *)
(* One asyncio event loop runs everything: a handler runs atomically from  *)
(* one await that really suspends to the next one, so every action below   *)
(* is "the code between two suspension points".                            *)
(***************************************************************************)
EXTENDS Integers, Sequences, FiniteSets, TLC

\* ------------------------------------------------------------------ bounds
MaxChat == 2      \* source chats are 1..MaxChat
MaxUser == 2      \* Telegram users (subscribers) are 1..MaxUser
MaxMsgId == 2     \* message ids of a chat are 1..MaxMsgId
MaxLive == 1      \* on_message handler tasks that may be in flight at once
MaxDeliveries == 2   \* messages the source client hands to on_message in a run
MaxCallbacks == 1    \* subscribe / unsubscribe callbacks the bot receives in a run
MaxCalls == 3        \* store methods called (constructions included) on the stores alone
MaxSeed == 2         \* ids in the initial_chat_ids a catalog is constructed with
MaxOps == 2          \* commands and texts the bot receives in a run next to the bridge
MaxBridged == 1      \* messages the bridge forwards in a run next to the bot
MaxHandlers == 3     \* callback handler tasks of the bot in a run, each handling one callback
MaxCrashes == 1      \* times the process dies and is started again

\* Python's None for an Optional[int]; chat, user and message ids are >= 1.
None == 0

Chats == 1..MaxChat
Users == 1..MaxUser
MsgIds == 1..MaxMsgId
Live == 1..MaxLive
Replay == 0                  \* the slot of the handle_message called by on_start
Slots == {Replay} \cup Live
RouteDest == MaxUser + 1     \* the tg_chat_id a static route may name
Dests == Users \cup {RouteDest}

VARIABLES
    routes,     \* settings.routes: the static routes of the configuration file
    state,      \* StateStore._state: chat id -> last forwarded message id
    subs,       \* SubscriptionsStore._data["users"]: user id -> profile
    catalog,    \* CatalogStore._data["groups"]: list of {id, hidden}
    h,          \* per slot: the frame of its handle_message invocation
    rp,         \* the frame of on_start (startup replay)
    attempts,   \* history: send_text calls made per (chat, message id, destination)
    obs,        \* history: what the calls of handle_message did so far
    delivered,  \* history: messages handed to on_message so far
    callbacks,  \* history: subscribe / unsubscribe callbacks received so far
    disk,       \* the files at state_path, subscribers_path and catalog_path
    built,      \* per store: how its construction ended
    admin_chat_id,  \* settings.admin_chat_id (0: no admin configured)
    pending_admin,  \* pending_admin: the users the bot awaits a chat id from
    apilog,     \* history: the store calls and bot updates handled so far
    ctl         \* the subscribe / unsubscribe callback handlers in flight, and
                \* history: the store calls they made, in the order they ran

botvars == <<built, admin_chat_id, pending_admin, apilog, ctl>>

vars == <<routes, state, subs, catalog, h, rp, attempts, obs, delivered, callbacks,
          disk, built, admin_chat_id, pending_admin, apilog, ctl>>

\* ----------------------------------------------------------------- helpers
SetOf(s) == {s[k] : k \in DOMAIN s}

Min(S) == CHOOSE x \in S : \A y \in S : x <= y

Max2(a, b) == IF a >= b THEN a ELSE b

RECURSIVE sorted(_)
\* Python's sorted() over a set of integers: the ascending list.
sorted(S) == IF S = {} THEN <<>> ELSE <<Min(S)>> \o sorted(S \ {Min(S)})

\* ------------------------------------------------------------ StateStore
get_last(st, chat_id) == IF chat_id \in DOMAIN st THEN st[chat_id] ELSE 0

set_last_alone(st, chat_id, msg_id) == (chat_id :> msg_id)

set_last(st, chat_id, msg_id) ==
    [c \in DOMAIN st \cup {chat_id} |-> IF c = chat_id THEN msg_id ELSE st[c]]

\* ---------------------------------------------------- SubscriptionsStore
get_user_chats(sb, user_id) ==
    IF user_id \in DOMAIN sb THEN sb[user_id].chats ELSE <<>>

get_subscribers_for_chat(sb, chat_id) ==
    {u \in DOMAIN sb : chat_id \in SetOf(sb[u].chats)}

subscribe_appends(sb, user_id, chat_id) ==
    LET users == IF user_id \in DOMAIN sb THEN sb
                 ELSE sb @@ (user_id :> [chats |-> <<>>])
    IN  [users EXCEPT ![user_id].chats = Append(@, chat_id)]

subscribe(sb, user_id, chat_id) ==
    LET users == IF user_id \in DOMAIN sb THEN sb
                 ELSE sb @@ (user_id :> [chats |-> <<>>])
    IN  [users EXCEPT ![user_id].chats = sorted(SetOf(@) \cup {chat_id})]

unsubscribe(sb, user_id, chat_id) ==
    IF user_id \notin DOMAIN sb THEN sb
    ELSE IF chat_id \in SetOf(sb[user_id].chats)
         THEN [sb EXCEPT ![user_id].chats = sorted(SetOf(@) \ {chat_id})]
         ELSE sb

\* ----------------------------------------------------------- CatalogStore
list_visible(cat) ==
    LET keep(g) == ~g.hidden
    IN  [k \in DOMAIN SelectSeq(cat, keep) |-> SelectSeq(cat, keep)[k].id]

GroupIds(cat) == {cat[k].id : k \in DOMAIN cat}

\* The first entry of the list with this id (the loops return at the first match).
FirstOf(cat, chat_id) == Min({k \in DOMAIN cat : cat[k].id = chat_id})

add_group_always_appends(cat, chat_id) ==
    Append(cat, [id |-> chat_id, hidden |-> FALSE])

add_group(cat, chat_id) ==
    IF chat_id \in GroupIds(cat)
    THEN [cat EXCEPT ![FirstOf(cat, chat_id)].hidden = FALSE]
    ELSE Append(cat, [id |-> chat_id, hidden |-> FALSE])

hide_group(cat, chat_id) ==
    IF chat_id \in GroupIds(cat)
    THEN [cat EXCEPT ![FirstOf(cat, chat_id)].hidden = TRUE]
    ELSE cat

unhide_group(cat, chat_id) ==
    IF chat_id \in GroupIds(cat)
    THEN [cat EXCEPT ![FirstOf(cat, chat_id)].hidden = FALSE]
    ELSE cat

merge_initial_no_check(cat, order) ==
    cat \o [k \in DOMAIN order |-> [id |-> order[k], hidden |-> FALSE]]

RECURSIVE merge_initial(_, _)
\* _merge_initial: order is set(initial_chat_ids) in the order the loop of
\* line 105 meets it; an id the list does not hold is appended, visible.
merge_initial(cat, order) ==
    IF order = <<>> THEN cat
    ELSE merge_initial(IF Head(order) \in GroupIds(cat) THEN cat
                       ELSE Append(cat, [id |-> Head(order), hidden |-> FALSE]),
                       Tail(order))

\* ------------------------------------------- SubscriptionsStore.ensure_user
\* An Optional[str] the code tests for truth: Nil is None or the empty string.
Nil == ""

\* dict.get(f) of a profile: a profile subscribe created has no username key.
Field(p, f) == IF f \in DOMAIN p THEN p[f] ELSE Nil

SetField(p, f, v) == [k \in DOMAIN p \cup {f} |-> IF k = f THEN v ELSE p[k]]

ensure_user_overwrites(sb, user_id, username, name) ==
    IF user_id \notin DOMAIN sb
    THEN sb @@ (user_id :> [chats |-> <<>>, username |-> username, name |-> name])
    ELSE [sb EXCEPT ![user_id] = SetField(SetField(@, "username", username), "name", name)]

ensure_user(sb, user_id, username, name) ==
    IF user_id \notin DOMAIN sb
    THEN sb @@ (user_id :> [chats |-> <<>>, username |-> username, name |-> name])
    ELSE LET p1 == IF username # Nil THEN SetField(sb[user_id], "username", username)
                   ELSE sb[user_id]
             p2 == IF name # Nil THEN SetField(p1, "name", name) ELSE p1
         IN  [sb EXCEPT ![user_id] = p2]

\* ------------------------------------------------------------ persistence
\* What a path holds: no file, bytes that do not decode as JSON, JSON that is
\* not the object the store writes (a list, a number, a map of the wrong
\* values), or the JSON text of a store.
Absent == [kind |-> "absent", text |-> <<>>]
Garbage == [kind |-> "garbage", text |-> <<>>]
WrongShape == [kind |-> "shape", text |-> <<>>]
Json(text) == [kind |-> "json", text |-> text]

\* json.dumps of a dict with integer-like keys: the list of its key/value pairs.
dumps_map(f) ==
    LET ks == sorted(DOMAIN f)
    IN  Json([k \in DOMAIN ks |-> <<ks[k], f[ks[k]]>>])

\* json.loads of such a text, read back into a dict.
loads_map(text) ==
    [key \in {text[k][1] : k \in DOMAIN text} |->
        text[CHOOSE k \in DOMAIN text : text[k][1] = key][2]]

dumps_list_drops_hidden(cat) == Json([k \in DOMAIN cat |-> <<cat[k].id, FALSE>>])

\* json.dumps / json.loads of the list of catalog groups.
dumps_list(cat) == Json([k \in DOMAIN cat |-> <<cat[k].id, cat[k].hidden>>])
loads_list(text) == [k \in DOMAIN text |-> [id |-> text[k][1], hidden |-> text[k][2]]]

StateStore_init_forgets(doc) == [data |-> <<>>, doc |-> doc, built |-> "ok"]

\* StateStore.__init__ / _load: every failure of reading gives the empty map.
StateStore_init(doc) ==
    [data |-> IF doc.kind = "json" THEN loads_map(doc.text) ELSE <<>>,
     doc |-> doc, built |-> "ok"]

\* SubscriptionsStore.__init__ / _load: a missing file is created; text that
\* does not parse gives the empty store; JSON of another shape is kept as
\* loaded, and every later method fails on it.
SubscriptionsStore_init(doc) ==
    CASE doc.kind = "absent" -> [data |-> <<>>, doc |-> dumps_map(<<>>), built |-> "ok"]
      [] doc.kind = "garbage" -> [data |-> <<>>, doc |-> doc, built |-> "ok"]
      [] doc.kind = "shape" -> [data |-> <<>>, doc |-> doc, built |-> "broken"]
      [] OTHER -> [data |-> loads_map(doc.text), doc |-> doc, built |-> "ok"]

\* CatalogStore.__init__: a missing file is seeded with the sorted ids; else
\* _load, then _merge_initial, which raises on JSON of another shape (line 104
\* calls .get on what was loaded) and saves otherwise.
CatalogStore_init(doc, order) ==
    CASE doc.kind = "absent" ->
            LET seeded == [k \in DOMAIN sorted(SetOf(order)) |->
                              [id |-> sorted(SetOf(order))[k], hidden |-> FALSE]]
            IN  [data |-> seeded, doc |-> dumps_list(seeded), built |-> "ok"]
      [] doc.kind = "shape" -> [data |-> <<>>, doc |-> doc, built |-> "raised"]
      [] OTHER ->
            LET loaded == IF doc.kind = "json" THEN loads_list(doc.text) ELSE <<>>
                merged == merge_initial(loaded, order)
            IN  [data |-> merged, doc |-> dumps_list(merged), built |-> "ok"]

\* ------------------------------------------------------- run(): the wiring
\* routes_map = defaultdict(list), and nothing ever fills it: .get(chat_id, [])
\* is the empty list for every chat, whatever settings.routes holds.
routes_map_get(chat_id) == <<>>

\* The static destinations the configuration names for a chat.
RouteDestsOf(rs, chat_id) ==
    {r.tg_chat_id : r \in {x \in rs : x.max_chat_id = chat_id /\ x.tg_chat_id # None}}

\* ------------------------------------------------- the source platform
\* A message of the platform is fixed by its chat and id: its attachments and
\* its sender do not change between deliveries.
AttachTable == << <<>>, <<"photo">>, <<>>, <<"video", "other">> >>

AttachesOf(c, k) == AttachTable[((c * MaxMsgId + k) % Len(AttachTable)) + 1]

SenderOf(c, k) == IF (c + k) % 2 = 0 THEN None ELSE 1

IntId(k) == [kind |-> "int", val |-> k]
BadId == [kind |-> "none", val |-> 0]

Message(c, k) ==
    [chat_id |-> c, id |-> IntId(k), attaches |-> AttachesOf(c, k), sender |-> SenderOf(c, k)]

\* What on_message may be handed: any message of a chat, a message without a
\* chat id, and a message whose id is not an integer.
LiveMessages ==
    {Message(c, k) : c \in Chats, k \in MsgIds}
        \cup {[Message(1, 1) EXCEPT !.chat_id = None]}
        \cup {[Message(1, 1) EXCEPT !.id = BadId]}

\* ------------------------------------------------------- handle_message
Idle ==
    [pc |-> "idle", message |-> Message(1, 1), chat_id |-> None, msg_id |-> 0, last_id |-> 0,
     tg_chats |-> <<>>, pos |-> 0, att |-> 0, log |-> <<>>, outcome |-> "none",
     someOk |-> FALSE]

Done(r, why) == [r EXCEPT !.pc = "done", !.outcome = why]

Resolve_consumes_unrouted(r, sb) ==
    LET tg == SetOf(routes_map_get(r.chat_id)) \cup get_subscribers_for_chat(sb, r.chat_id)
    IN  IF tg = {} THEN Done(r, "committed")
        ELSE [r EXCEPT !.pc = "send_text", !.tg_chats = sorted(tg), !.pos = 1]

Resolve_unsorted(r, sb) ==
    LET tg == SetOf(routes_map_get(r.chat_id)) \cup get_subscribers_for_chat(sb, r.chat_id)
        asc == sorted(tg)
    IN  IF tg = {} THEN Done(r, "unrouted")
        ELSE [r EXCEPT !.pc = "send_text", !.pos = 1,
                       !.tg_chats = [k \in DOMAIN asc |-> asc[Len(asc) + 1 - k]]]

Resolve_from_boot(r, sb) ==
    LET tg == SetOf(routes_map_get(r.chat_id))
                 \cup get_subscribers_for_chat(obs.bootSubs, r.chat_id)
    IN  IF tg = {} THEN Done(r, "unrouted")
        ELSE [r EXCEPT !.pc = "send_text", !.tg_chats = sorted(tg), !.pos = 1]

\* lines 97-102: the destination set, after the author lookup returned.
Resolve(r, sb) ==
    LET tg == SetOf(routes_map_get(r.chat_id)) \cup get_subscribers_for_chat(sb, r.chat_id)
    IN  IF tg = {} THEN Done(r, "unrouted")
        ELSE [r EXCEPT !.pc = "send_text", !.tg_chats = sorted(tg), !.pos = 1]

DedupPasses_strict(msg_id, last_id) == ~(msg_id < last_id)

\* line 93: the message goes on unless msg_id <= last_id.
DedupPasses(msg_id, last_id) == ~(msg_id <= last_id)

Entry_unparsed_goes_on(m, override_chat_id, st, sb) ==
    LET chat_id == IF override_chat_id # None THEN override_chat_id ELSE m.chat_id
        r0 == [Idle EXCEPT !.message = m, !.chat_id = chat_id]
    IN  IF chat_id = None THEN Done(r0, "no_chat")
        ELSE LET r1 == [r0 EXCEPT !.msg_id = m.id.val, !.last_id = get_last(st, chat_id)]
             IN  IF m.id.kind = "int" /\ ~DedupPasses(r1.msg_id, r1.last_id)
                 THEN Done(r1, "dedup")
                 ELSE IF m.sender = None THEN Resolve(r1, sb)
                 ELSE [r1 EXCEPT !.pc = "author"]

\* lines 82-96: from the call to the first suspension (or to the return).
Entry(m, override_chat_id, st, sb) ==
    LET chat_id == IF override_chat_id # None THEN override_chat_id ELSE m.chat_id
        r0 == [Idle EXCEPT !.message = m, !.chat_id = chat_id]
    IN  IF chat_id = None THEN Done(r0, "no_chat")
        ELSE IF m.id.kind # "int" THEN Done(r0, "bad_id")
        ELSE LET r1 == [r0 EXCEPT !.msg_id = m.id.val, !.last_id = get_last(st, chat_id)]
             IN  IF ~DedupPasses(r1.msg_id, r1.last_id) THEN Done(r1, "dedup")
                 ELSE IF m.sender = None THEN Resolve(r1, sb)
                 ELSE [r1 EXCEPT !.pc = "author"]

AfterDest_first_only(r) == Done(r, "committed")

\* line 104: the loop moves to the next destination, or ends and line 109 runs.
AfterDest(r) ==
    IF r.pos < Len(r.tg_chats)
    THEN [r EXCEPT !.pc = "send_text", !.pos = @ + 1, !.att = 0]
    ELSE Done(r, "committed")

\* lines 105-107 and 48-51: send_text returned; send_attachments starts.
AfterText(r, ok) ==
    LET r1 == [r EXCEPT !.log = Append(@, [op |-> "text", dest |-> r.tg_chats[r.pos], idx |-> 0]),
                        !.someOk = @ \/ ok]
    IN  IF r.message.attaches = <<>> THEN AfterDest(r1)
        ELSE [r1 EXCEPT !.pc = "attach", !.att = 1]

\* lines 52-67: what one attachment can do, by its kind.
AttachOutcomes(kind) ==
    CASE kind = "photo" -> {"fetch_failed", "relayed", "relay_failed"}
      [] kind \in {"video", "file"} ->
            {"lookup_failed", "lookup_empty", "fetch_failed", "relayed", "relay_failed"}
      [] OTHER -> {"ignored"}

RelayOp(kind) ==
    CASE kind = "photo" -> "photo" [] kind = "video" -> "video" [] OTHER -> "document"

AttachEvents(kind, outcome, dest, idx) ==
    LET ev(op) == [op |-> op, dest |-> dest, idx |-> idx]
        first == IF kind = "photo" THEN <<ev("fetch")>> ELSE <<ev("lookup")>>
    IN  CASE outcome = "ignored" -> <<>>
          [] outcome \in {"lookup_failed", "lookup_empty"} -> first
          [] outcome = "fetch_failed" ->
                IF kind = "photo" THEN first ELSE first \o <<ev("fetch")>>
          [] OTHER ->
                (IF kind = "photo" THEN first ELSE first \o <<ev("fetch")>>)
                    \o <<ev(RelayOp(kind))>>

AfterAttach_uncaught(r, outcome) ==
    LET kind == r.message.attaches[r.att]
        r1 == [r EXCEPT !.log = @ \o AttachEvents(kind, outcome, r.tg_chats[r.pos], r.att),
                        !.someOk = @ \/ (outcome = "relayed")]
    IN  IF outcome \in {"lookup_failed", "fetch_failed"}
        THEN [r1 EXCEPT !.pc = "sleep", !.att = Len(r.message.attaches)]
        ELSE [r1 EXCEPT !.pc = "sleep"]

\* lines 52-68: one attachment handled (its exception, if any, caught); the
\* coroutine is now in asyncio.sleep(0.5).
AfterAttach(r, outcome) ==
    LET kind == r.message.attaches[r.att]
    IN  [r EXCEPT !.pc = "sleep",
                  !.log = @ \o AttachEvents(kind, outcome, r.tg_chats[r.pos], r.att),
                  !.someOk = @ \/ (outcome = "relayed")]

\* line 68 returned: the next attachment, or the end of send_attachments.
AfterSleep(r) ==
    IF r.att < Len(r.message.attaches)
    THEN [r EXCEPT !.pc = "attach", !.att = @ + 1]
    ELSE AfterDest(r)

Commit_if_delivered(st, r, r2) ==
    IF r.pc # "done" /\ r2.pc = "done" /\ r2.outcome = "committed" /\ r2.someOk
    THEN set_last(st, r2.chat_id, r2.msg_id)
    ELSE st

\* line 109: the watermark after a step of a frame that went from r to r2.
Commit(st, r, r2) ==
    IF r.pc # "done" /\ r2.pc = "done" /\ r2.outcome = "committed"
    THEN set_last(st, r2.chat_id, r2.msg_id)
    ELSE st

\* ------------------------------------------------- history of the calls
\* returned: the (chat, id) some call of handle_message has returned for;
\* unrouted: those a call returned for on an empty destination set;
\* again[i]: the call in slot i began after an earlier call for the same
\*           message had returned;
\* ordered[c]: so far the calls for chat c ran one after another, with
\*           strictly increasing ids; lastProcessed[c]: the id of the latest;
\* routedMax[c]: the largest id of chat c a call found destinations for;
\* boot: the watermarks run() loaded; bootSubs: the subscriptions it loaded;
\* fetched[c]: the ids of the history on_start fetched for chat c, once it has;
\* cut[c]: on_message has called handle_message for chat c;
\* crashes: how often the process died and was started again; lost: the
\* (chat, id) of the calls a crash ended after a send and before set_last.
ObsInit(st, sb) ==
    [returned |-> {}, unrouted |-> {}, again |-> [i \in Slots |-> FALSE],
     ordered |-> [c \in Chats |-> TRUE], lastProcessed |-> [c \in Chats |-> 0],
     routedMax |-> [c \in Chats |-> 0], boot |-> st, bootSubs |-> sb,
     fetched |-> [c \in Chats |-> [seen |-> FALSE, ids |-> {}]],
     cut |-> [c \in Chats |-> FALSE], crashes |-> 0, lost |-> {}]

HasKey(r) == r.chat_id # None /\ r.message.id.kind = "int"

InFlight(r) == r.pc \notin {"idle", "done"}

\* A step took the frame of a call from r to r2.
ObsStep(g, r, r2) ==
    IF ~HasKey(r2) THEN g
    ELSE LET c == r2.chat_id
             key == <<r2.chat_id, r2.msg_id>>
         IN  [g EXCEPT
                !.routedMax[c] = IF r.tg_chats = <<>> /\ r2.tg_chats # <<>>
                                 THEN Max2(@, r2.msg_id) ELSE @,
                !.returned = IF r2.pc = "done" THEN @ \cup {key} ELSE @,
                !.unrouted = IF r2.pc = "done" /\ r2.outcome = "unrouted"
                             THEN @ \cup {key} ELSE @]

\* A call began in slot i and ran to r2 (suspended or returned); busy are the
\* chats the other slots have a call in flight for.
ObsCall(g, i, r2, busy) ==
    IF ~HasKey(r2) THEN [g EXCEPT !.again[i] = FALSE]
    ELSE LET c == r2.chat_id
             g1 == [g EXCEPT
                      !.again[i] = <<c, r2.msg_id>> \in g.returned,
                      !.cut[c] = @ \/ i # Replay,
                      !.ordered[c] = @ /\ c \notin busy /\ r2.msg_id > g.lastProcessed[c],
                      !.lastProcessed[c] = r2.msg_id]
         IN  ObsStep(g1, Idle, r2)

BusyChats(i) == {h[j].chat_id : j \in {x \in Slots \ {i} : InFlight(h[x])}}

\* ---------------------------------------------------- on_start: the replay
RpFetch(chats) == [pc |-> "fetch", chats |-> chats, hist |-> <<>>]
RpFinished == [pc |-> "finished", chats |-> <<>>, hist |-> <<>>]

RECURSIVE RunHistory(_, _, _, _, _, _, _)
\* lines 230-241: the loop over the sorted history calls handle_message with the
\* chat as override; a call that returns without suspending (discarded at
\* entry, or unrouted with no author lookup) lets the loop go on at once.
\* The result is the frame now suspended (or the last one, returned), the
\* messages still to come and the history of the calls.
RunHistory(st, sb, chat_id, hist, last, g, busy) ==
    IF hist = <<>> THEN [r |-> last, hist |-> <<>>, g |-> g]
    ELSE LET r == Entry(Head(hist), chat_id, st, sb)
             g1 == ObsCall(g, Replay, r, busy)
         IN  IF r.pc = "done" THEN RunHistory(st, sb, chat_id, Tail(hist), r, g1, busy)
             ELSE [r |-> r, hist |-> Tail(hist), g |-> g1]

\* lines 225-241 from a given point: the frames of handle_message and on_start
\* once the loop reaches its next suspension.
ReplayContinue(st, sb, chats, hist, last, g, busy) ==
    LET res == RunHistory(st, sb, Head(chats), hist, last, g, busy)
    IN  IF InFlight(res.r)
        THEN [r |-> res.r, g |-> res.g,
              rp |-> [pc |-> "run", chats |-> chats, hist |-> res.hist]]
        ELSE [r |-> res.r, g |-> res.g,
              rp |-> IF Len(chats) > 1 THEN RpFetch(Tail(chats)) ELSE RpFinished]

HistoryOf_as_fetched(chat_id, native, ids) ==
    LET asc == sorted(ids)
    IN  [k \in 1..Cardinality(ids) |->
            [Message(chat_id, asc[Cardinality(ids) + 1 - k]) EXCEPT !.chat_id = native]]

\* The history fetch_history may return for a chat: any of its messages, which
\* name the chat themselves or do not (native); line 230 sorts them by id.
HistoryOf(chat_id, native, ids) ==
    [k \in 1..Cardinality(ids) |->
        [Message(chat_id, sorted(ids)[k]) EXCEPT !.chat_id = native]]

\* ------------------------------------------------------------------ state
Bump(att, chat_id, msg_id, dest) ==
    [att EXCEPT ![<<chat_id, msg_id, dest>>] = IF @ < 2 THEN @ + 1 ELSE @]

\* What the stores hold when run() has constructed them: nothing on a first
\* run, or what an earlier run persisted.
Snapshots ==
    { [state |-> <<>>, subs |-> <<>>, catalog |-> <<>>],
      [state |-> <<>>, subs |-> (1 :> [chats |-> <<>>]),
       catalog |-> <<[id |-> 1, hidden |-> FALSE]>>],
      [state |-> (1 :> 1), subs |-> (1 :> [chats |-> <<1>>]),
       catalog |-> <<[id |-> 1, hidden |-> FALSE], [id |-> 2, hidden |-> TRUE]>>],
      [state |-> <<>>,
       subs |-> (1 :> [chats |-> <<2>>]) @@ (2 :> [chats |-> <<1, 2>>]),
       catalog |-> <<[id |-> 2, hidden |-> FALSE], [id |-> 1, hidden |-> TRUE]>>] }

\* load_routes: at least one route, each with or without a tg_chat_id.
RouteConfigs ==
    { {[max_chat_id |-> 1, tg_chat_id |-> RouteDest], [max_chat_id |-> 2, tg_chat_id |-> None]} }

\* A callback handler of the dispatcher: a task of the control loop.
Handlers == 1..MaxHandlers

CbIdle == [pc |-> "idle", kind |-> "none", user |-> 0, chat |-> 0,
           already |-> FALSE, report |-> "none", at |-> 0]

InitFrames ==
    /\ h = [i \in Slots |-> Idle]
    /\ attempts = [t \in Chats \X MsgIds \X Dests |-> 0]
    /\ obs = ObsInit(state, subs)
    /\ delivered = 0
    /\ callbacks = 0
    /\ ctl = [tasks |-> [k \in Handlers |-> CbIdle], log |-> <<>>]

\* The files run() leaves behind its constructors when they loaded s: the
\* watermark file is written by set_last only, the other two by construction.
DiskOf(s) ==
    [state |-> IF s.state = <<>> THEN Absent ELSE dumps_map(s.state),
     subs |-> dumps_map(s.subs),
     catalog |-> dumps_list(s.catalog)]

AllBuilt == [state |-> "ok", subs |-> "ok", catalog |-> "ok"]

\* An entry of the history of calls: the method or handler, its arguments,
\* whether it found what it was called for, and whether it raised.
NoCall ==
    [op |-> "none", user |-> 0, chat |-> 0, order |-> <<>>, username |-> Nil, name |-> Nil,
     found |-> FALSE, raised |-> FALSE]

Logged(log, call) == [calls |-> log.calls + 1, last |-> call]

\* The bot has handled no update yet; no admin is configured.
InitBot ==
    /\ built = AllBuilt
    /\ admin_chat_id = 0
    /\ pending_admin = {}
    /\ apilog = [calls |-> 0, last |-> NoCall]

Init ==
    /\ routes \in RouteConfigs
    /\ \E s \in Snapshots :
          state = s.state /\ subs = s.subs /\ catalog = s.catalog /\ disk = DiskOf(s)
    /\ rp = [pc |-> "init", chats |-> <<>>, hist |-> <<>>]
    /\ InitFrames
    /\ InitBot

\* set_last is called (and _save with it) in the step that took r to r2.
Commits(r, r2) == r.pc # "done" /\ r2.pc = "done" /\ r2.outcome = "committed"

\* A step of the handle_message in slot i that takes its frame to r2: line 109
\* runs if the loop ended, and the replay loop goes on if it was its call.
Finish(i, r2, g) ==
    LET st2 == Commit(state, h[i], r2)
    IN  /\ state' = st2
        /\ disk' = IF Commits(h[i], r2) THEN [disk EXCEPT !.state = dumps_map(st2)] ELSE disk
        /\ UNCHANGED botvars
        /\ IF i = Replay /\ r2.pc = "done"
           THEN LET c == ReplayContinue(st2, subs, rp.chats, rp.hist, r2, g, BusyChats(Replay))
                IN  h' = [h EXCEPT ![i] = c.r] /\ rp' = c.rp /\ obs' = c.g
           ELSE h' = [h EXCEPT ![i] = r2] /\ rp' = rp /\ obs' = g

\* on_start up to its first fetch_history.
OnStart ==
    /\ rp.pc = "init"
    /\ rp' = IF list_visible(catalog) = <<>> THEN RpFinished
             ELSE RpFetch(list_visible(catalog))
    /\ UNCHANGED <<routes, state, subs, catalog, h, attempts, obs, delivered, callbacks>>
    /\ UNCHANGED <<disk, botvars>>

\* fetch_history returned for the chat at the head of the list.
FetchHistory ==
    /\ rp.pc = "fetch"
    /\ \E ids \in SUBSET MsgIds, native \in {Head(rp.chats), None} :
          LET g == [obs EXCEPT !.fetched[Head(rp.chats)] = [seen |-> TRUE, ids |-> ids]]
              c == ReplayContinue(state, subs, rp.chats,
                                  HistoryOf(Head(rp.chats), native, ids),
                                  h[Replay], g, BusyChats(Replay))
          IN  h' = [h EXCEPT ![Replay] = c.r] /\ rp' = c.rp /\ obs' = c.g
    /\ UNCHANGED <<routes, state, subs, catalog, attempts, delivered, callbacks>>
    /\ UNCHANGED <<disk, botvars>>

\* The task slots whose handler has returned (or never ran).
FreeSlots == {i \in Live : ~InFlight(h[i])} \cup {MaxLive + 1}

\* on_message: the client hands a message to a new handler task.
OnMessage(i, m) ==
    /\ delivered < MaxDeliveries
    /\ i = Min(FreeSlots)
    /\ delivered' = delivered + 1
    /\ LET r2 == Entry(m, None, state, subs)
       IN  Finish(i, r2, ObsCall(obs, i, r2, BusyChats(i)))
    /\ UNCHANGED <<routes, subs, catalog, attempts, callbacks>>

\* resolve_author returned (a name, or None after a caught failure).
AuthorReturns(i) ==
    /\ h[i].pc = "author"
    /\ LET r2 == Resolve(h[i], subs)
       IN  Finish(i, r2, ObsStep(obs, h[i], r2))
    /\ UNCHANGED <<routes, subs, catalog, attempts, delivered, callbacks>>

\* tg.send_text returned: _post swallowed any failure.
TextReturns(i, ok) ==
    /\ h[i].pc = "send_text"
    /\ attempts' = Bump(attempts, h[i].chat_id, h[i].msg_id, h[i].tg_chats[h[i].pos])
    /\ LET r2 == AfterText(h[i], ok)
       IN  Finish(i, r2, ObsStep(obs, h[i], r2))
    /\ UNCHANGED <<routes, subs, catalog, delivered, callbacks>>

\* One attachment was looked up, downloaded and relayed, as far as it got.
AttachmentDone(i, outcome) ==
    /\ h[i].pc = "attach"
    /\ outcome \in AttachOutcomes(h[i].message.attaches[h[i].att])
    /\ LET r2 == AfterAttach(h[i], outcome)
       IN  Finish(i, r2, ObsStep(obs, h[i], r2))
    /\ UNCHANGED <<routes, subs, catalog, attempts, delivered, callbacks>>

\* asyncio.sleep(0.5) returned.
SleepReturns(i) ==
    /\ h[i].pc = "sleep"
    /\ LET r2 == AfterSleep(h[i])
       IN  Finish(i, r2, ObsStep(obs, h[i], r2))
    /\ UNCHANGED <<routes, subs, catalog, attempts, delivered, callbacks>>

\* subscribe_cb: lines 287-290 run without suspension; the rest only answers.
subscribe_cb(user_id, chat_id) ==
    /\ callbacks < MaxCallbacks
    /\ callbacks' = callbacks + 1
    /\ subs' = IF chat_id \in SetOf(get_user_chats(subs, user_id)) THEN subs
               ELSE subscribe(subs, user_id, chat_id)
    /\ disk' = IF chat_id \in SetOf(get_user_chats(subs, user_id)) THEN disk
               ELSE [disk EXCEPT !.subs = dumps_map(subs')]
    /\ UNCHANGED botvars
    /\ UNCHANGED <<routes, state, catalog, h, rp, attempts, obs, delivered>>

\* unsubscribe_cb: line 304, then answers.
unsubscribe_cb(user_id, chat_id) ==
    /\ callbacks < MaxCallbacks
    /\ callbacks' = callbacks + 1
    /\ subs' = unsubscribe(subs, user_id, chat_id)
    /\ disk' = IF subs' # subs THEN [disk EXCEPT !.subs = dumps_map(subs')] ELSE disk
    /\ UNCHANGED botvars
    /\ UNCHANGED <<routes, state, catalog, h, rp, attempts, obs, delivered>>

AllOutcomes ==
    {"fetch_failed", "relayed", "relay_failed", "lookup_failed", "lookup_empty", "ignored"}

Next ==
    \/ OnStart
    \/ FetchHistory
    \/ \E i \in Live, m \in LiveMessages : OnMessage(i, m)
    \/ \E i \in Slots : AuthorReturns(i)
    \/ \E i \in Slots, ok \in BOOLEAN : TextReturns(i, ok)
    \/ \E i \in Slots, o \in AllOutcomes : AttachmentDone(i, o)
    \/ \E i \in Slots : SleepReturns(i)
    \/ \E u \in Users, c \in Chats : subscribe_cb(u, c)
    \/ \E u \in Users, c \in Chats : unsubscribe_cb(u, c)

Spec == Init /\ [][Next]_vars

\* ------------------------------------------- one fan-out at a time, in detail
\* The handler alone, on messages with longer attachment lists: the replay has
\* finished (the catalog is empty) and on_message is handed the next message
\* only after the previous call returned.
AttachLists == { <<>>, <<"photo", "video">>, <<"file", "other", "photo">> }

RichMessages ==
    {[Message(c, k) EXCEPT !.attaches = a] : c \in Chats, k \in MsgIds, a \in AttachLists}

FanoutSnapshots ==
    { [state |-> <<>>,
       subs |-> (1 :> [chats |-> <<1>>]) @@ (2 :> [chats |-> <<1, 2>>]),
       catalog |-> <<>>] }

InitFanout ==
    /\ routes \in RouteConfigs
    /\ \E s \in FanoutSnapshots :
          state = s.state /\ subs = s.subs /\ catalog = s.catalog /\ disk = DiskOf(s)
    /\ rp = RpFinished
    /\ InitFrames
    /\ InitBot

NextFanout ==
    \/ \E m \in RichMessages : OnMessage(1, m)
    \/ AuthorReturns(1)
    \/ \E ok \in BOOLEAN : TextReturns(1, ok)
    \/ \E o \in AllOutcomes : AttachmentDone(1, o)
    \/ SleepReturns(1)

SpecFanout == InitFanout /\ [][NextFanout]_vars

\* ------------------------------------------------- the stores on their own
\* The three store classes under any caller: constructed over the files of an
\* earlier run or over damaged ones, then any of their methods, then
\* constructed again (a restart).  No message is in flight.
CatalogIds == 1..(MaxChat + 1)

\* set(initial_chat_ids) in the order its loop meets the ids.
Orders ==
    {o \in UNION {[1..n -> CatalogIds] : n \in 0..MaxSeed} :
        \A a, b \in DOMAIN o : a # b => o[a] # o[b]}

Usernames == {Nil, "ann", "bob"}
FullNames == {Nil, "Ann"}

DiskImages ==
    { [state |-> Absent, subs |-> Absent, catalog |-> Absent],
      [state |-> Garbage, subs |-> Garbage, catalog |-> Garbage],
      [state |-> WrongShape, subs |-> WrongShape, catalog |-> WrongShape],
      [state |-> dumps_map((1 :> 2)),
       subs |-> dumps_map((1 :> [chats |-> <<1, 2>>, username |-> "ann", name |-> Nil])),
       catalog |-> dumps_list(<<[id |-> 1, hidden |-> FALSE], [id |-> 2, hidden |-> TRUE]>>)] }

InitStores ==
    /\ routes \in RouteConfigs
    /\ disk \in DiskImages
    /\ state = <<>> /\ subs = <<>> /\ catalog = <<>>
    /\ built = [state |-> "none", subs |-> "none", catalog |-> "none"]
    /\ admin_chat_id = 0
    /\ pending_admin = {}
    /\ apilog = [calls |-> 0, last |-> NoCall]
    /\ rp = RpFinished
    /\ InitFrames

EngineIdle == UNCHANGED <<routes, h, rp, attempts, obs, delivered, callbacks,
                          admin_chat_id, pending_admin, ctl>>

\* run(), lines 124-129: the three constructors, in this order; the catalog
\* one is given initial_chat_ids.
Construct(order) ==
    /\ apilog.calls < MaxCalls
    /\ LET a == StateStore_init(disk.state)
           b == SubscriptionsStore_init(disk.subs)
           c == CatalogStore_init(disk.catalog, order)
       IN  /\ state' = a.data /\ subs' = b.data /\ catalog' = c.data
           /\ disk' = [state |-> a.doc, subs |-> b.doc, catalog |-> c.doc]
           /\ built' = [state |-> a.built, subs |-> b.built, catalog |-> c.built]
           /\ apilog' = Logged(apilog, [NoCall EXCEPT !.op = "construct", !.order = order,
                                                      !.raised = (c.built = "raised")])
    /\ EngineIdle

\* The process is up: run() got past its constructors.
Up == built.state = "ok" /\ built.subs \in {"ok", "broken"} /\ built.catalog = "ok"

StateStore_set_last(chat_id, msg_id) ==
    /\ apilog.calls < MaxCalls /\ Up
    /\ state' = set_last(state, chat_id, msg_id)
    /\ disk' = [disk EXCEPT !.state = dumps_map(state')]
    /\ apilog' = Logged(apilog, [NoCall EXCEPT !.op = "set_last", !.chat = chat_id,
                                               !.found = (chat_id \in DOMAIN state)])
    /\ UNCHANGED <<subs, catalog, built>>
    /\ EngineIdle

\* A method of a SubscriptionsStore whose _data is not a dict raises at its
\* first line (setdefault / get), before it changes anything.
SubsCall(call, sb2, saves) ==
    /\ apilog.calls < MaxCalls /\ Up
    /\ IF built.subs = "broken"
       THEN /\ UNCHANGED <<subs, disk>>
            /\ apilog' = Logged(apilog, [call EXCEPT !.raised = TRUE])
       ELSE /\ subs' = sb2
            /\ disk' = IF saves THEN [disk EXCEPT !.subs = dumps_map(sb2)] ELSE disk
            /\ apilog' = Logged(apilog, call)
    /\ UNCHANGED <<state, catalog, built>>
    /\ EngineIdle

SubscriptionsStore_ensure_user(user_id, username, name) ==
    SubsCall([NoCall EXCEPT !.op = "ensure_user", !.user = user_id, !.username = username,
                            !.name = name, !.found = (user_id \in DOMAIN subs)],
             ensure_user(subs, user_id, username, name), TRUE)

SubscriptionsStore_subscribe(user_id, chat_id) ==
    SubsCall([NoCall EXCEPT !.op = "subscribe", !.user = user_id, !.chat = chat_id,
                            !.found = (chat_id \in SetOf(get_user_chats(subs, user_id)))],
             subscribe(subs, user_id, chat_id), TRUE)

SubscriptionsStore_unsubscribe(user_id, chat_id) ==
    SubsCall([NoCall EXCEPT !.op = "unsubscribe", !.user = user_id, !.chat = chat_id,
                            !.found = (chat_id \in SetOf(get_user_chats(subs, user_id)))],
             unsubscribe(subs, user_id, chat_id),
             chat_id \in SetOf(get_user_chats(subs, user_id)))

CatalogCall(call, cat2, saves) ==
    /\ apilog.calls < MaxCalls /\ Up
    /\ catalog' = cat2
    /\ disk' = IF saves THEN [disk EXCEPT !.catalog = dumps_list(cat2)] ELSE disk
    /\ apilog' = Logged(apilog, [call EXCEPT !.found = (call.chat \in GroupIds(catalog))])
    /\ UNCHANGED <<state, subs, built>>
    /\ EngineIdle

CatalogStore_add_group(chat_id) ==
    CatalogCall([NoCall EXCEPT !.op = "add_group", !.chat = chat_id],
                add_group(catalog, chat_id), TRUE)

CatalogStore_hide_group(chat_id) ==
    CatalogCall([NoCall EXCEPT !.op = "hide_group", !.chat = chat_id],
                hide_group(catalog, chat_id), chat_id \in GroupIds(catalog))

CatalogStore_unhide_group(chat_id) ==
    CatalogCall([NoCall EXCEPT !.op = "unhide_group", !.chat = chat_id],
                unhide_group(catalog, chat_id), chat_id \in GroupIds(catalog))

NextStores ==
    \/ \E o \in Orders : Construct(o)
    \/ \E c \in Chats, k \in MsgIds : StateStore_set_last(c, k)
    \/ \E u \in Users, un \in Usernames, nm \in FullNames :
          SubscriptionsStore_ensure_user(u, un, nm)
    \/ \E u \in Users, c \in Chats : SubscriptionsStore_subscribe(u, c)
    \/ \E u \in Users, c \in Chats : SubscriptionsStore_unsubscribe(u, c)
    \/ \E c \in CatalogIds : CatalogStore_add_group(c)
    \/ \E c \in CatalogIds : CatalogStore_hide_group(c)
    \/ \E c \in CatalogIds : CatalogStore_unhide_group(c)

SpecStores == InitStores /\ [][NextStores]_vars

\* ------------------------------------------------ the bot and its admin
\* The handlers of the Telegram bot next to a bridge that forwards one
\* message at a time; hide_group and unhide_group, which no handler calls,
\* are called as any caller of the catalog could.
AdminIds == {0, MaxUser}

\* What a user may type to the bot: a chat id, or text that is no number.
Texts == {IntId(c) : c \in CatalogIds} \cup {BadId}

StartNames == {<<Nil, Nil>>, <<"ann", "Ann">>}

is_admin_anyone(user_id) == TRUE

\* is_admin, lines 148-149.
is_admin(user_id) == admin_chat_id # 0 /\ user_id = admin_chat_id

InitAdmin ==
    /\ routes \in RouteConfigs
    /\ \E s \in Snapshots :
          state = s.state /\ subs = s.subs /\ catalog = s.catalog /\ disk = DiskOf(s)
    /\ rp = RpFinished
    /\ InitFrames
    /\ built = AllBuilt
    /\ admin_chat_id \in AdminIds
    /\ pending_admin = {}
    /\ apilog = [calls |-> 0, last |-> NoCall]

BridgeIdle == UNCHANGED <<routes, state, h, rp, attempts, obs, delivered, callbacks,
                          built, admin_chat_id, ctl>>

\* start_cmd (and menu_cmd): ensure_user, then the menu is sent.
start_cmd(user_id, username, name) ==
    /\ apilog.calls < MaxOps
    /\ subs' = ensure_user(subs, user_id, username, name)
    /\ disk' = [disk EXCEPT !.subs = dumps_map(subs')]
    /\ apilog' = Logged(apilog, [NoCall EXCEPT !.op = "start_cmd", !.user = user_id,
                                               !.username = username, !.name = name])
    /\ UNCHANGED <<catalog, pending_admin>>
    /\ BridgeIdle

\* admin_add: the admin is asked for a chat id.
admin_add(user_id) ==
    /\ apilog.calls < MaxOps
    /\ pending_admin' = IF is_admin(user_id) THEN pending_admin \cup {user_id}
                        ELSE pending_admin
    /\ apilog' = Logged(apilog, [NoCall EXCEPT !.op = "admin_add", !.user = user_id])
    /\ UNCHANGED <<subs, catalog, disk>>
    /\ BridgeIdle

\* admin_text: the pending "add" of the admin is taken, and a number adds the group.
admin_text(user_id, text) ==
    /\ apilog.calls < MaxOps
    /\ LET adds == is_admin(user_id) /\ user_id \in pending_admin /\ text.kind = "int"
       IN  /\ pending_admin' = IF is_admin(user_id) THEN pending_admin \ {user_id}
                               ELSE pending_admin
           /\ catalog' = IF adds THEN add_group(catalog, text.val) ELSE catalog
           /\ disk' = IF adds THEN [disk EXCEPT !.catalog = dumps_list(catalog')] ELSE disk
           /\ apilog' = Logged(apilog, [NoCall EXCEPT !.op = "admin_text", !.user = user_id,
                                                      !.chat = text.val, !.found = adds])
    /\ UNCHANGED subs
    /\ BridgeIdle

\* admin_del_chat: line 387 calls catalog.remove_group, which CatalogStore
\* does not define: the handler raises AttributeError there, before line 388
\* (subs.remove_group_from_all, not defined either), and nothing is removed.
admin_del_chat(user_id, chat_id) ==
    /\ apilog.calls < MaxOps
    /\ apilog' = Logged(apilog, [NoCall EXCEPT !.op = "admin_del_chat", !.user = user_id,
                                               !.chat = chat_id,
                                               !.found = (chat_id \in GroupIds(catalog)),
                                               !.raised = is_admin(user_id)])
    /\ UNCHANGED <<subs, catalog, disk, pending_admin>>
    /\ BridgeIdle

\* on_message, for the one message the bridge forwards here.
Bridged(m) == delivered < MaxBridged /\ OnMessage(1, m)

NextAdmin ==
    \/ \E m \in LiveMessages : Bridged(m)
    \/ AuthorReturns(1)
    \/ \E ok \in BOOLEAN : TextReturns(1, ok)
    \/ \E o \in AllOutcomes : AttachmentDone(1, o)
    \/ SleepReturns(1)
    \/ \E u \in Users, c \in Chats : subscribe_cb(u, c)
    \/ \E u \in Users, c \in Chats : unsubscribe_cb(u, c)
    \/ \E u \in Users, n \in StartNames : start_cmd(u, n[1], n[2])
    \/ \E u \in Users : admin_add(u)
    \/ \E u \in Users, t \in Texts : admin_text(u, t)
    \/ \E u \in Users, c \in CatalogIds : admin_del_chat(u, c)
    \/ \E c \in CatalogIds : CatalogStore_hide_group(c)
    \/ \E c \in CatalogIds : CatalogStore_unhide_group(c)

SpecAdmin == InitAdmin /\ [][NextAdmin]_vars

\* ------------------------------------------- callback handlers as tasks
\* subscribe_cb and unsubscribe_cb as the dispatcher runs them: one task per
\* callback, suspended at each await; between two awaits a task runs alone.

\* subscribe_cb, lines 287-290: up to the first await.
SubscribeStep_unchecked(sb, user_id, chat_id) ==
    [already |-> FALSE, subs |-> subscribe(sb, user_id, chat_id)]

SubscribeStep(sb, user_id, chat_id) ==
    LET already == chat_id \in SetOf(get_user_chats(sb, user_id))
    IN  [already |-> already,
         subs |-> IF already THEN sb ELSE subscribe(sb, user_id, chat_id)]

StoreCall(op, user_id, chat_id) == [op |-> op, user |-> user_id, chat |-> chat_id]

CtlIdle == UNCHANGED <<routes, state, catalog, h, rp, attempts, obs, delivered, callbacks,
                       built, admin_chat_id, pending_admin, apilog>>

\* The dispatcher starts subscribe_cb: lines 287-290 run, then the task is
\* suspended in bot.send_message (an admin is configured) or in cb.answer.
SubStart(k, user_id, chat_id) ==
    /\ ctl.tasks[k].pc = "idle"
    /\ LET st == SubscribeStep(subs, user_id, chat_id)
           log2 == IF st.already THEN ctl.log
                   ELSE Append(ctl.log, StoreCall("subscribe", user_id, chat_id))
       IN  /\ subs' = st.subs
           /\ disk' = IF st.already THEN disk ELSE [disk EXCEPT !.subs = dumps_map(subs')]
           /\ ctl' = [tasks |-> [ctl.tasks EXCEPT ![k] =
                                    [pc |-> IF ~st.already /\ admin_chat_id # 0
                                            THEN "notify" ELSE "answer",
                                     kind |-> "sub", user |-> user_id, chat |-> chat_id,
                                     already |-> st.already, report |-> "none",
                                     at |-> Len(log2)]],
                      log |-> log2]
    /\ CtlIdle

\* bot.send_message (line 292) returns, or raises and ends the handler.
SubNotified(k, ok) ==
    /\ ctl.tasks[k].pc = "notify"
    /\ ctl' = [ctl EXCEPT !.tasks[k].pc = IF ok THEN "answer" ELSE "done"]
    /\ UNCHANGED <<subs, disk>>
    /\ CtlIdle

\* cb.answer (line 296 or 298) returns: the user has been told.
SubAnswered(k) ==
    /\ ctl.tasks[k].pc = "answer" /\ ctl.tasks[k].kind = "sub"
    /\ ctl' = [ctl EXCEPT !.tasks[k].pc = "edit",
                          !.tasks[k].report = IF ctl.tasks[k].already THEN "already" ELSE "new"]
    /\ UNCHANGED <<subs, disk>>
    /\ CtlIdle

\* The dispatcher starts unsubscribe_cb: line 304 runs, then the task is
\* suspended in edit_reply_markup.
UnsubStart(k, user_id, chat_id) ==
    /\ ctl.tasks[k].pc = "idle"
    /\ subs' = unsubscribe(subs, user_id, chat_id)
    /\ disk' = IF subs' # subs THEN [disk EXCEPT !.subs = dumps_map(subs')] ELSE disk
    /\ ctl' = [tasks |-> [ctl.tasks EXCEPT ![k] =
                             [pc |-> "edit", kind |-> "unsub", user |-> user_id,
                              chat |-> chat_id, already |-> FALSE, report |-> "none",
                              at |-> Len(ctl.log) + 1]],
               log |-> Append(ctl.log, StoreCall("unsubscribe", user_id, chat_id))]
    /\ CtlIdle

\* edit_reply_markup returns: the last await of subscribe_cb (line 299), and
\* the one before cb.answer in unsubscribe_cb (lines 305-306).
CbEdited(k) ==
    /\ ctl.tasks[k].pc = "edit"
    /\ ctl' = [ctl EXCEPT !.tasks[k].pc = IF ctl.tasks[k].kind = "sub" THEN "done" ELSE "answer"]
    /\ UNCHANGED <<subs, disk>>
    /\ CtlIdle

UnsubAnswered(k) ==
    /\ ctl.tasks[k].pc = "answer" /\ ctl.tasks[k].kind = "unsub"
    /\ ctl' = [ctl EXCEPT !.tasks[k].pc = "done", !.tasks[k].report = "removed"]
    /\ UNCHANGED <<subs, disk>>
    /\ CtlIdle

InitCallbacks ==
    /\ routes \in RouteConfigs
    /\ \E s \in Snapshots :
          state = s.state /\ subs = s.subs /\ catalog = s.catalog /\ disk = DiskOf(s)
    /\ rp = RpFinished
    /\ InitFrames
    /\ built = AllBuilt
    /\ admin_chat_id \in AdminIds
    /\ pending_admin = {}
    /\ apilog = [calls |-> 0, last |-> NoCall]

NextCallbacks ==
    \/ \E k \in Handlers, u \in Users, c \in Chats : SubStart(k, u, c)
    \/ \E k \in Handlers, ok \in BOOLEAN : SubNotified(k, ok)
    \/ \E k \in Handlers : SubAnswered(k)
    \/ \E k \in Handlers, u \in Users, c \in Chats : UnsubStart(k, u, c)
    \/ \E k \in Handlers : CbEdited(k)
    \/ \E k \in Handlers : UnsubAnswered(k)

SpecCallbacks == InitCallbacks /\ [][NextCallbacks]_vars

\* ---------------------------------------------------- crash and restart
\* The calls of handle_message a crash ends between a send and set_last.
CutShort ==
    {<<h[i].chat_id, h[i].msg_id>> :
        i \in {j \in Slots : /\ InFlight(h[j]) /\ HasKey(h[j])
                             /\ \E d \in Dests : attempts[<<h[j].chat_id, h[j].msg_id, d>>] > 0}}

\* The process dies (every task and every object of it is gone, the files
\* stay) and is started again: run() constructs the stores from the files
\* (lines 124-129), the handlers are registered and on_start runs anew.
Crash ==
    /\ obs.crashes < MaxCrashes
    /\ LET a == StateStore_init(disk.state)
           b == SubscriptionsStore_init(disk.subs)
           c == CatalogStore_init(disk.catalog, <<>>)
       IN  /\ state' = a.data /\ subs' = b.data /\ catalog' = c.data
           /\ disk' = [state |-> a.doc, subs |-> b.doc, catalog |-> c.doc]
           /\ built' = [state |-> a.built, subs |-> b.built, catalog |-> c.built]
    /\ h' = [i \in Slots |-> Idle]
    /\ rp' = [pc |-> "init", chats |-> <<>>, hist |-> <<>>]
    /\ pending_admin' = {}
    /\ ctl' = [ctl EXCEPT !.tasks = [k \in Handlers |-> CbIdle]]
    /\ obs' = [obs EXCEPT !.crashes = @ + 1, !.lost = @ \cup CutShort,
                          !.again = [i \in Slots |-> FALSE]]
    /\ UNCHANGED <<routes, attempts, delivered, callbacks, admin_chat_id, apilog>>

NextCrash ==
    \/ OnStart
    \/ FetchHistory
    \/ \E i \in Live, m \in LiveMessages : OnMessage(i, m)
    \/ \E i \in Slots : AuthorReturns(i)
    \/ \E i \in Slots, ok \in BOOLEAN : TextReturns(i, ok)
    \/ \E i \in Slots, o \in AllOutcomes : AttachmentDone(i, o)
    \/ \E i \in Slots : SleepReturns(i)
    \/ Crash

SpecCrash == Init /\ [][NextCrash]_vars

\* ------------------------------------------------------------------ claims
\* on_message started the call of the frame h'[i] in this step.
Delivers(i) == delivered' = delivered + 1 /\ i = Min(FreeSlots)

TextDests(log) == {log[k].dest : k \in {x \in DOMAIN log : log[x].op = "text"}}

\* C1: every (source message, destination) pair gets at most one send_text
\* attempt, whatever the interleaving of the handle_message calls.
C1_AtMostOnePerPair == \A t \in DOMAIN attempts : attempts[t] <= 1

\* C2: no step makes get_last of any chat smaller, and get_last is 0 for a chat
\* nothing was ever committed for.
C2_WatermarkMonotone ==
    [][\A c \in Chats : get_last(state', c) >= get_last(state, c)]_vars

\* C3: a message handed to on_message with an id at or below the watermark of
\* its chat is discarded at once: the call returns, nothing is sent and no
\* watermark changes; a discarded call never has a send in its log.
C3_OldIdDiscarded ==
    [][\A i \in Live :
          (/\ Delivers(i)
           /\ HasKey(h'[i])
           /\ h'[i].message.id.val <= get_last(state, h'[i].chat_id))
          => (/\ h'[i].pc = "done"
              /\ h'[i].log = <<>>
              /\ state' = state
              /\ attempts' = attempts)]_vars

C3_Witness ==
    \E i \in Live :
        /\ h[i].outcome = "dedup"
        /\ h[i].msg_id < get_last(state, h[i].chat_id)
        /\ \E d \in Dests : attempts[<<h[i].chat_id, get_last(state, h[i].chat_id), d>>] = 1

\* The call in slot i returned in this step.
CallReturns(i) == h'[i].pc = "done" /\ (Delivers(i) \/ InFlight(h[i]))

Quiet(c) == \A i \in Slots : InFlight(h[i]) => h[i].chat_id # c

\* C5 as stated: after messages of one chat with strictly increasing ids were
\* processed one after another, get_last is the largest id processed.
C5_LastIsMaxProcessed ==
    \A c \in Chats :
        (obs.ordered[c] /\ obs.lastProcessed[c] > 0 /\ Quiet(c))
        => get_last(state, c) = obs.lastProcessed[c]

\* C5 amended: get_last is then the largest processed id that had a destination
\* (or the watermark loaded at startup, if none had or that one is larger).
C5_LastIsMaxRouted ==
    \A c \in Chats :
        (obs.ordered[c] /\ Quiet(c))
        => get_last(state, c) = Max2(get_last(obs.boot, c), obs.routedMax[c])

C5_Witness ==
    \E c \in Chats :
        /\ obs.ordered[c] /\ Quiet(c)
        /\ obs.routedMax[c] > 0
        /\ obs.lastProcessed[c] > obs.routedMax[c]
        /\ get_last(state, c) = obs.routedMax[c]

\* The frame h'[i] got its destination set (or returned for want of one) in
\* this step.
Resolves(i) ==
    /\ h'[i] # h[i]
    /\ HasKey(h'[i])
    /\ \/ /\ h'[i].pc = "done" /\ h'[i].tg_chats = <<>>
          /\ h'[i].outcome \notin {"no_chat", "bad_id", "dedup"}
       \/ h'[i].pc = "send_text" /\ h'[i].pos = 1 /\ h'[i].log = <<>>

\* C6: the destination set of a message is the destinations of the static
\* routes of its chat together with the subscribers of the chat.
C6_FanoutUnion ==
    [][\A i \in Slots :
          Resolves(i)
          => SetOf(h'[i].tg_chats) =
                RouteDestsOf(routes, h'[i].chat_id)
                    \cup get_subscribers_for_chat(subs, h'[i].chat_id)]_vars

\* C7: in one run the destinations are served in ascending order, one after
\* another and each once; for a destination the text comes first, then the
\* attachments in source order, and all of it before the next destination.
OpRank(op) == CASE op = "text" -> 0 [] op = "lookup" -> 1 [] op = "fetch" -> 2 [] OTHER -> 3

Served(r) ==
    IF r.pc = "done" THEN Len(r.tg_chats)
    ELSE IF r.pc = "send_text" THEN r.pos - 1 ELSE r.pos

C7_OrderedFanout ==
    \A i \in Slots :
        LET r == h[i]
            L == r.log
        IN  /\ \A a, b \in DOMAIN r.tg_chats : a < b => r.tg_chats[a] < r.tg_chats[b]
            /\ \A a, b \in DOMAIN L :
                  a < b =>
                    \/ L[a].dest < L[b].dest
                    \/ /\ L[a].dest = L[b].dest
                       /\ L[b].op # "text"
                       /\ \/ L[a].idx < L[b].idx
                          \/ L[a].idx = L[b].idx /\ OpRank(L[a].op) < OpRank(L[b].op)
            /\ \A b \in DOMAIN L :
                  L[b].op # "text" =>
                    \E a \in 1..(b - 1) : L[a].op = "text" /\ L[a].dest = L[b].dest
            /\ InFlight(r) \/ r.outcome = "committed" =>
                  TextDests(L) = {r.tg_chats[k] : k \in 1..Served(r)}

RelayOps == {"photo", "video", "document"}

C7_Witness ==
    \E i \in Live :
        /\ h[i].outcome = "committed"
        /\ Len(h[i].tg_chats) >= 2
        /\ \A d \in SetOf(h[i].tg_chats) :
              Cardinality({k \in DOMAIN h[i].log :
                              h[i].log[k].dest = d /\ h[i].log[k].op \in RelayOps}) >= 2

\* C8 as stated: a call that computes an empty destination set sends nothing
\* and leaves the watermarks alone, and the same message handed in again when
\* the chat has a destination is forwarded.
C8_UnroutedThenForwarded ==
    [][\A i \in Live :
          /\ (Resolves(i) /\ h'[i].tg_chats = <<>>)
             => (h'[i].pc = "done" /\ h'[i].log = <<>> /\ state' = state /\ attempts' = attempts)
          /\ (/\ Delivers(i)
              /\ HasKey(h'[i])
              /\ <<h'[i].chat_id, h'[i].msg_id>> \in obs.unrouted
              /\ get_subscribers_for_chat(subs, h'[i].chat_id) # {})
             => h'[i].outcome # "dedup"]_vars

\* C8 amended: ... is forwarded if the watermark of the chat is still below
\* its id when it is handed in again.
C8_UnroutedNotConsumed ==
    [][\A i \in Live :
          /\ (Resolves(i) /\ h'[i].tg_chats = <<>>)
             => (h'[i].pc = "done" /\ h'[i].log = <<>> /\ state' = state /\ attempts' = attempts)
          /\ (/\ Delivers(i)
              /\ HasKey(h'[i])
              /\ <<h'[i].chat_id, h'[i].msg_id>> \in obs.unrouted
              /\ get_subscribers_for_chat(subs, h'[i].chat_id) # {}
              /\ h'[i].msg_id > get_last(state, h'[i].chat_id))
             => (/\ h'[i].outcome # "dedup"
                 /\ h'[i].pc \in {"author", "send_text"}
                 /\ h'[i].pc = "send_text" =>
                       SetOf(h'[i].tg_chats) = get_subscribers_for_chat(subs, h'[i].chat_id))]_vars

C8_Witness ==
    \E i \in Live :
        /\ obs.again[i]
        /\ <<h[i].chat_id, h[i].msg_id>> \in obs.unrouted
        /\ h[i].outcome = "committed"
        /\ get_last(state, h[i].chat_id) = h[i].msg_id

\* The frame r is at the last suspension of its loop over the destinations.
LastStep(r) ==
    /\ r.tg_chats # <<>>
    /\ r.pos = Len(r.tg_chats)
    /\ \/ r.pc = "send_text" /\ r.message.attaches = <<>>
       \/ r.pc = "sleep" /\ r.att = Len(r.message.attaches)

\* C9: the watermark of a chat changes only in the step that ends the loop over
\* the destinations of a message of that chat, every destination having had
\* its text attempt, and that step sets it to the message id whatever failed.
C9_CommitAfterAllDests ==
    [][/\ \A i \in Slots :
            (h'[i] # h[i] /\ LastStep(h[i]))
            => get_last(state', h[i].chat_id) = h[i].msg_id
       /\ \A c \in Chats :
            get_last(state', c) # get_last(state, c)
            => \E i \in Slots :
                  /\ h'[i] # h[i] /\ LastStep(h[i]) /\ h[i].chat_id = c
                  /\ get_last(state', c) = h[i].msg_id
                  /\ SetOf(h[i].tg_chats) =
                        TextDests(h[i].log) \cup
                            (IF h[i].pc = "send_text" THEN {h[i].tg_chats[h[i].pos]} ELSE {})]_vars

C9_Witness ==
    \E i \in Slots :
        /\ h[i].outcome = "committed"
        /\ ~h[i].someOk
        /\ Len(h[i].tg_chats) >= 2
        /\ h[i].message.attaches # <<>>
        /\ get_last(state, h[i].chat_id) = h[i].msg_id

\* C10: once a call that had destinations has returned, each destination got
\* exactly one text attempt and, for each photo, video or file attachment,
\* exactly one attempt (its download or its lookup), whatever failed.
FirstOp(kind) == IF kind = "photo" THEN "fetch" ELSE "lookup"

C10_EveryItemAttempted ==
    \A i \in Slots :
        (h[i].pc = "done" /\ h[i].tg_chats # <<>>)
        => \A d \in SetOf(h[i].tg_chats) :
              LET L == h[i].log
                  A == h[i].message.attaches
              IN  /\ Cardinality({x \in DOMAIN L : L[x].dest = d /\ L[x].op = "text"}) = 1
                  /\ \A k \in DOMAIN A :
                        A[k] # "other" =>
                          Cardinality({x \in DOMAIN L :
                              L[x].dest = d /\ L[x].idx = k /\ L[x].op = FirstOp(A[k])}) = 1

C10_Witness ==
    \E i \in Live :
        /\ h[i].pc = "done"
        /\ Len(h[i].tg_chats) >= 2
        /\ Len(h[i].message.attaches) >= 3
        /\ ~h[i].someOk
        /\ \A k \in DOMAIN h[i].log : h[i].log[k].op \notin RelayOps

\* C13: a message whose id does not parse as an integer makes handle_message
\* return at once: nothing is sent, and the watermarks, the subscriptions, the
\* catalog and the three files are as before; the call returns, it does not
\* raise.
C13_UnparsedIdDiscarded ==
    [][\A i \in Live :
          (Delivers(i) /\ h'[i].message.id.kind # "int")
          => (/\ h'[i].pc = "done"
              /\ h'[i].outcome \in {"bad_id", "no_chat"}
              /\ h'[i].log = <<>>
              /\ attempts' = attempts
              /\ state' = state /\ subs' = subs /\ catalog' = catalog
              /\ disk' = disk)]_vars

C13_Witness ==
    \E i \in Live :
        /\ h[i].outcome = "bad_id"
        /\ get_subscribers_for_chat(subs, h[i].chat_id) # {}
        /\ get_last(state, h[i].chat_id) > 0

\* C14: handle_message keeps no copy of the subscriptions: the destination set
\* of every call is read from the store as it is at that moment, so a user is
\* in it exactly if the chat is in the user's subscription set by then.
C14_DestinationsFromStoreNow ==
    [][\A i \in Slots :
          Resolves(i)
          => \A u \in Users :
                (u \in SetOf(h'[i].tg_chats))
                    <=> (h'[i].chat_id \in SetOf(get_user_chats(subs, u)))]_vars

C14_Witness ==
    \E i \in Live, u \in Users :
        /\ callbacks > 0
        /\ h[i].outcome = "committed"
        /\ h[i].message.sender = None
        /\ h[i].chat_id \notin SetOf(get_user_chats(obs.bootSubs, u))
        /\ u \in TextDests(h[i].log)
        /\ \E v \in Users \ {u} : h[i].chat_id \in SetOf(get_user_chats(obs.bootSubs, v))

\* ---------------------------------------------------- claims on the stores
\* This step is a call of the method op (a construction, for "construct").
Calls(op) == apilog'.calls = apilog.calls + 1 /\ apilog'.last.op = op

\* The catalog a file holds, as _load reads it.
OnDisk(doc) == IF doc.kind = "json" THEN loads_list(doc.text) ELSE <<>>

\* C15: constructing a catalog over no file or over a persisted catalog, with
\* static ids S, gives exactly one entry per id of (persisted ids) \cup S; the
\* persisted entries are kept as they were, the new ones are visible, and if
\* S brings no new id the catalog and its file are as before.
C15_MergeIsUnion ==
    [][(Calls("construct") /\ disk.catalog.kind \in {"absent", "json"})
       => LET old == OnDisk(disk.catalog)
              ids == SetOf(apilog'.last.order)
          IN  /\ built'.catalog = "ok"
              /\ GroupIds(catalog') = GroupIds(old) \cup ids
              /\ Len(catalog') = Cardinality(GroupIds(old) \cup ids)
              /\ \A k \in DOMAIN catalog' :
                    IF catalog'[k].id \in GroupIds(old)
                    THEN \E j \in DOMAIN old : old[j] = catalog'[k]
                    ELSE ~catalog'[k].hidden
              /\ (disk.catalog.kind = "json" /\ ids \subseteq GroupIds(old))
                    => (catalog' = old /\ disk'.catalog = disk.catalog)]_vars

C15_Witness ==
    /\ apilog.last.op = "construct"
    /\ Len(apilog.last.order) = 2
    /\ apilog.calls = 3
    /\ GroupIds(catalog) = CatalogIds
    /\ Len(catalog) = 3
    /\ \E k \in DOMAIN catalog :
          catalog[k].hidden /\ catalog[k].id \in SetOf(apilog.last.order)

Unique(cat) == Len(cat) = Cardinality(GroupIds(cat))

\* C16: the catalog never holds two entries with one id; add_group of an id
\* it holds changes nothing but that entry's flag, which becomes visible, and
\* add_group of an id it lacks appends one visible entry.
C16_OneEntryPerId ==
    [][/\ Unique(catalog')
       /\ Calls("add_group")
          => LET c == apilog'.last.chat
             IN  IF c \in GroupIds(catalog)
                 THEN /\ Len(catalog') = Len(catalog)
                      /\ \A k \in DOMAIN catalog :
                            IF catalog[k].id = c
                            THEN catalog'[k] = [id |-> c, hidden |-> FALSE]
                            ELSE catalog'[k] = catalog[k]
                 ELSE catalog' = Append(catalog, [id |-> c, hidden |-> FALSE])]_vars

C16_Witness ==
    /\ apilog.last.op = "add_group"
    /\ apilog.last.found
    /\ Len(catalog) >= 2
    /\ disk.catalog = dumps_list(catalog)
    /\ \A k \in DOMAIN catalog : ~catalog[k].hidden

Ascending(seq) == \A a, b \in DOMAIN seq : a < b => seq[a] < seq[b]

\* C17: the chats of a user are always in ascending order, none twice;
\* subscribe adds the chat to the set (creating the profile if need be), a
\* second subscribe changes nothing, and unsubscribe removes the chat if it is
\* there and changes nothing, in memory or in the file, if it is not.
C17_SubscriptionSets ==
    [][built'.subs = "ok"
       => /\ \A u \in Users : Ascending(get_user_chats(subs', u))
          /\ (Calls("subscribe") /\ built.subs = "ok")
             => LET u == apilog'.last.user
                    c == apilog'.last.chat
                IN  /\ u \in DOMAIN subs'
                    /\ SetOf(get_user_chats(subs', u)) = SetOf(get_user_chats(subs, u)) \cup {c}
                    /\ \A v \in DOMAIN subs \ {u} : subs'[v] = subs[v]
                    /\ apilog'.last.found => subs' = subs
                    /\ subscribe(subs', u, c) = subs'
          /\ (Calls("unsubscribe") /\ built.subs = "ok")
             => LET u == apilog'.last.user
                    c == apilog'.last.chat
                IN  IF c \in SetOf(get_user_chats(subs, u))
                    THEN /\ SetOf(get_user_chats(subs', u)) = SetOf(get_user_chats(subs, u)) \ {c}
                         /\ \A v \in DOMAIN subs \ {u} : subs'[v] = subs[v]
                    ELSE subs' = subs /\ disk' = disk]_vars

C17_Witness ==
    /\ apilog.last.op = "subscribe"
    /\ apilog.last.found
    /\ apilog.calls = 3
    /\ get_user_chats(subs, apilog.last.user) = <<apilog.last.chat>>

\* C18: ensure_user creates the profile of an unknown user with no chats and
\* the given names; for a known user it keeps the chats and replaces a name
\* only by a non-empty one; calling it again changes nothing; and no call of
\* any store method turns a stored non-empty username or name into an empty one.
C18_EnsureUserKeepsData ==
    [][(built.subs = "ok" /\ built'.subs = "ok")
       => /\ \A u \in DOMAIN subs : \A f \in {"username", "name"} :
                Field(subs[u], f) # Nil => (u \in DOMAIN subs' /\ Field(subs'[u], f) # Nil)
          /\ Calls("ensure_user")
             => LET u == apilog'.last.user
                    un == apilog'.last.username
                    nm == apilog'.last.name
                IN  /\ u \in DOMAIN subs'
                    /\ get_user_chats(subs', u) = get_user_chats(subs, u)
                    /\ \A v \in DOMAIN subs \ {u} : subs'[v] = subs[v]
                    /\ IF u \in DOMAIN subs
                       THEN /\ Field(subs'[u], "username") =
                                  (IF un # Nil THEN un ELSE Field(subs[u], "username"))
                            /\ Field(subs'[u], "name") =
                                  (IF nm # Nil THEN nm ELSE Field(subs[u], "name"))
                       ELSE /\ Field(subs'[u], "username") = un
                            /\ Field(subs'[u], "name") = nm
                    /\ ensure_user(subs', u, un, nm) = subs']_vars

C18_Witness ==
    /\ apilog.last.op = "ensure_user"
    /\ apilog.last.found
    /\ apilog.last.username = Nil /\ apilog.last.name # Nil
    /\ Field(subs[apilog.last.user], "username") # Nil
    /\ Field(subs[apilog.last.user], "name") = apilog.last.name
    /\ get_user_chats(subs, apilog.last.user) # <<>>

Damaged(doc) == doc.kind \in {"garbage", "shape"}

\* C19: constructing the stores over files that cannot be read or do not hold
\* what the store writes never fails, and leaves each such store empty: no
\* watermark, no user, and only the static ids in the catalog.
C19_FailOpenLoad ==
    [][Calls("construct")
       => /\ built' = AllBuilt
          /\ Damaged(disk.state) => state' = <<>>
          /\ Damaged(disk.subs) => subs' = <<>>
          /\ Damaged(disk.catalog)
                => (/\ GroupIds(catalog') = SetOf(apilog'.last.order)
                    /\ \A k \in DOMAIN catalog' : ~catalog'[k].hidden)]_vars

\* What a restart would load from the files as they are now.
Reloaded ==
    /\ built.state = "ok" => StateStore_init(disk.state).data = state
    /\ built.subs = "ok" => SubscriptionsStore_init(disk.subs).data = subs
    /\ built.catalog = "ok" => CatalogStore_init(disk.catalog, <<>>).data = catalog

MutatingCalls ==
    {"set_last", "add_group", "hide_group", "unhide_group", "ensure_user", "subscribe",
     "unsubscribe"}

\* C20: when a mutating store method has returned, each file reads back as
\* the in-memory state of its store, and a store the call changed has been
\* written in full; constructing the stores again (a restart) gives the
\* watermarks, subscriptions and catalog held before.
C20_Durable ==
    [][/\ (apilog'.calls = apilog.calls + 1 /\ apilog'.last.op \in MutatingCalls
              /\ ~apilog'.last.raised)
          => /\ Reloaded'
             /\ state' # state => disk'.state = dumps_map(state')
             /\ subs' # subs => disk'.subs = dumps_map(subs')
             /\ catalog' # catalog => disk'.catalog = dumps_list(catalog')
       /\ (Calls("construct") /\ built = AllBuilt)
          => /\ state' = state /\ subs' = subs
             /\ apilog'.last.order = <<>> => catalog' = catalog
             /\ built' = AllBuilt]_vars

C20_Witness ==
    /\ apilog.last.op = "construct"
    /\ apilog.last.order = <<>>
    /\ apilog.calls = 3
    /\ catalog = <<[id |-> 3, hidden |-> TRUE]>>

Hidden(cat, chat_id) == \E k \in DOMAIN cat : cat[k].id = chat_id /\ cat[k].hidden

\* C11: when the admin deletes catalog entry C, the entry leaves the catalog
\* and C leaves every subscription set: C has no subscriber afterwards.
C11_DeleteCascades ==
    [][(Calls("admin_del_chat") /\ is_admin(apilog'.last.user))
          => /\ apilog'.last.chat \notin GroupIds(catalog')
             /\ get_subscribers_for_chat(subs', apilog'.last.chat) = {}]_vars

\* What admin_del_chat does instead: it raises, and the catalog, the
\* subscriptions and the files are as they were.
DeleteRaises ==
    [][(Calls("admin_del_chat") /\ is_admin(apilog'.last.user))
          => /\ apilog'.last.raised
             /\ catalog' = catalog /\ subs' = subs /\ disk' = disk]_vars

\* hide_group(C) changes the hidden flag of the entries of C and nothing else.
HideFrame ==
    Calls("hide_group")
        => /\ subs' = subs /\ state' = state
           /\ Len(catalog') = Len(catalog)
           /\ \A k \in DOMAIN catalog :
                 /\ catalog'[k].id = catalog[k].id
                 /\ catalog[k].id # apilog'.last.chat => catalog'[k] = catalog[k]

\* C12: hide_group(C) changes only the hidden flag of entry C and no
\* subscription set, and a live message on a hidden C is still sent to every
\* subscriber of C and to the static destinations of C.
C12_HideKeepsDelivery ==
    [][/\ HideFrame
       /\ \A i \in Live :
             (Resolves(i) /\ Hidden(catalog, h'[i].chat_id))
                => SetOf(h'[i].tg_chats) =
                      get_subscribers_for_chat(subs, h'[i].chat_id)
                          \cup RouteDestsOf(routes, h'[i].chat_id)]_vars

\* The part of C12 that the code does: the frame of hide_group, and the
\* subscribers of a hidden chat are still the destinations of its messages.
HideKeepsSubscribers ==
    [][/\ HideFrame
       /\ \A i \in Live :
             (Resolves(i) /\ Hidden(catalog, h'[i].chat_id))
                => SetOf(h'[i].tg_chats) =
                      get_subscribers_for_chat(subs, h'[i].chat_id)]_vars

RECURSIVE Applied(_, _)
\* The store after the calls of a log, made one after another.
Applied(sb, log) ==
    IF log = <<>> THEN sb
    ELSE LET c == Head(log)
             sb2 == IF c.op = "subscribe" THEN subscribe(sb, c.user, c.chat)
                    ELSE unsubscribe(sb, c.user, c.chat)
         IN  Applied(sb2, Tail(log))

\* The store call of a handler task that has run up to its first await.
CallOf(t) ==
    IF t.kind = "unsub" THEN {StoreCall("unsubscribe", t.user, t.chat)}
    ELSE IF t.kind = "sub" /\ ~t.already THEN {StoreCall("subscribe", t.user, t.chat)}
    ELSE {}

\* C21: however the callback handlers interleave at their awaits, the
\* subscriptions are what the store calls of the handlers give when made one
\* after another in some order, each call once; and of two subscribe
\* callbacks for the same user and chat, with no unsubscribe of that pair
\* between them, at most one subscribes and reports a new subscription.
C21_StoreCallsAtomic ==
    /\ subs = Applied(obs.bootSubs, ctl.log)
    /\ disk.subs = DiskOf([state |-> state, subs |-> subs, catalog |-> catalog]).subs
    /\ Len(ctl.log) = Cardinality({k \in Handlers : CallOf(ctl.tasks[k]) # {}})
    /\ \A k \in Handlers :
          /\ CallOf(ctl.tasks[k]) # {} => CallOf(ctl.tasks[k]) = {ctl.log[ctl.tasks[k].at]}
          /\ ctl.tasks[k].report = "new" => ~ctl.tasks[k].already
    /\ \A k1, k2 \in Handlers :
          LET a == ctl.tasks[k1]
              b == ctl.tasks[k2]
          IN  (/\ a.kind = "sub" /\ b.kind = "sub" /\ ~a.already /\ ~b.already
               /\ a.user = b.user /\ a.chat = b.chat /\ a.at < b.at)
                 => \E j \in (a.at + 1)..(b.at - 1) :
                       ctl.log[j] = StoreCall("unsubscribe", a.user, a.chat)

\* Two subscribe callbacks of one user for one chat are in flight together:
\* the first has subscribed and is still awaited, the second found the
\* subscription; a third handler has unsubscribed another pair meanwhile.
C21_Witness ==
    \E k1, k2, k3 \in Handlers :
        LET a == ctl.tasks[k1]
            b == ctl.tasks[k2]
        IN  /\ a.kind = "sub" /\ b.kind = "sub" /\ k1 # k2
            /\ a.user = b.user /\ a.chat = b.chat
            /\ ~a.already /\ a.pc \in {"notify", "answer"}
            /\ b.already /\ b.report = "already"
            /\ ctl.tasks[k3].kind = "unsub" /\ ctl.tasks[k3].at = 2
            /\ subs # obs.bootSubs

Largest(S) == CHOOSE x \in S : \A y \in S : y <= x

\* on_start has fetched the history of chat c and its loop over it has ended.
Replayed(c) == obs.fetched[c].seen /\ ~(rp.pc = "run" /\ Head(rp.chats) = c)

\* What the replay of chat c gives when it ends: every fetched message above the watermark
\* loaded at startup got past the dedup check and was sent once to each of
\* its destinations, and when the largest fetched message had destinations
\* the watermark is its id.
ReplayedInOrder(c) ==
    LET F == obs.fetched[c].ids
    IN  /\ \A k \in F :
              k > get_last(obs.boot, c)
                 => /\ <<c, k>> \in obs.returned
                    /\ \/ <<c, k>> \in obs.unrouted
                       \/ \E d \in Dests : attempts[<<c, k, d>>] = 1
                    /\ \A d \in Dests : attempts[<<c, k, d>>] <= 1
        /\ (/\ F # {}
            /\ obs.lastProcessed[c] = Largest(F)
            /\ obs.routedMax[c] = Largest(F))
              => get_last(state, c) = Largest(F)

\* C22: the startup replay feeds the fetched history of a visible chat to
\* handle_message in ascending id order under the chat as override, so every
\* fetched message above the watermark loaded at startup is forwarded exactly
\* once (none is skipped because of a newer one), and after the replay of a
\* chat with destinations the watermark is the largest fetched id.
C22_ReplayAscending ==
    [][/\ rp'.pc = "run" => h'[Replay].chat_id = Head(rp'.chats)
       /\ \A c \in Chats : (~Replayed(c) /\ Replayed(c)') => ReplayedInOrder(c)']_vars

\* The same, for the replays no on_message call of the chat cuts into.
ReplayAloneInOrder ==
    [][\A c \in Chats :
          (~Replayed(c) /\ Replayed(c)' /\ ~obs'.cut[c]) => ReplayedInOrder(c)']_vars

\* The replay of a chat has ended alone: both its messages were fetched,
\* neither names its chat, both were sent, and the watermark is the larger id.
ReplayAloneDone ==
    \E c \in Chats :
        /\ Replayed(c) /\ ~obs.cut[c]
        /\ obs.fetched[c].ids = MsgIds
        /\ get_last(obs.boot, c) = 0
        /\ \A k \in MsgIds : \E d \in Dests : attempts[<<c, k, d>>] = 1
        /\ h[Replay].message.chat_id = None /\ h[Replay].chat_id = c
        /\ get_last(state, c) = MaxMsgId

Crashes == obs'.crashes = obs.crashes + 1

\* A call of handle_message begins in slot i, for a message with a chat and an id.
Begins(i) == ~InFlight(h[i]) /\ h'[i] # h[i] /\ h'[i].pc # "idle" /\ HasKey(h'[i])

\* C23: a crash leaves every watermark as it was persisted: a call it ends
\* after its sends and before set_last leaves the watermark of its chat at
\* the previous value, so the same message fed again after the restart
\* passes the dedup check and is sent again; a message whose set_last had
\* returned is at or below the watermark after the restart and is discarded.
C23_CrashBeforeCommitRedelivers ==
    [][/\ Crashes
          => /\ \A c \in Chats : get_last(state', c) = get_last(state, c)
             /\ \A i \in Slots :
                   (InFlight(h[i]) /\ get_last(state, h[i].chat_id) = h[i].last_id)
                      => /\ get_last(state', h[i].chat_id) = h[i].last_id
                         /\ DedupPasses(h[i].msg_id, get_last(state', h[i].chat_id))
       /\ \A i \in Slots :
             (obs.crashes > 0 /\ Begins(i))
                => /\ (h'[i].outcome = "dedup")
                         <=> h'[i].msg_id <= get_last(state, h'[i].chat_id)
                   /\ (/\ <<h'[i].chat_id, h'[i].msg_id>> \in obs.lost
                       /\ h'[i].msg_id > get_last(state, h'[i].chat_id)
                       /\ get_subscribers_for_chat(subs, h'[i].chat_id) # {}
                       /\ h'[i].message.sender = None)
                         => h'[i].pc = "send_text"]_vars

\* A message was sent to a destination, the process died before set_last,
\* and after the restart the message was sent to that destination again and
\* committed.
C23_Witness ==
    /\ obs.crashes = 1
    /\ \E c \in Chats, k \in MsgIds, d \in Dests :
          /\ <<c, k>> \in obs.lost
          /\ attempts[<<c, k, d>>] = 2
          /\ get_last(obs.boot, c) < k
          /\ get_last(state, c) = k

\* A message was committed, the process died, and the message fed again
\* after the restart is discarded by the dedup check.
CommittedThenCrashed ==
    /\ obs.crashes = 1
    /\ \E i \in Slots :
          /\ h[i].pc = "done" /\ h[i].outcome = "dedup"
          /\ <<h[i].chat_id, h[i].msg_id>> \notin obs.lost
          /\ h[i].msg_id > get_last(obs.boot, h[i].chat_id)
          /\ \E d \in Dests : attempts[<<h[i].chat_id, h[i].msg_id, d>>] = 1

\* The frame in slot i is past line 102: its destinations are computed.
Delivering(r) == r.pc \in {"send_text", "attach", "sleep"}

\* The users subscribed to the chat of call r that are not among its destinations.
LateFor(r, sb) == get_subscribers_for_chat(sb, r.chat_id) \ SetOf(r.tg_chats)

\* What holds of a call r with destinations: a user subscribed during the
\* delivery has received no text of the message; once the call has returned
\* the watermark of the chat is at or past the message, and every destination
\* of the call was sent the text, those that unsubscribed meanwhile too.
FixedFanout(r, st, sb, att) ==
    r.tg_chats # <<>>
       => /\ \A u \in LateFor(r, sb) : att[<<r.chat_id, r.msg_id, u>>] = 0
          /\ r.pc = "done"
                => /\ get_last(st, r.chat_id) >= r.msg_id
                   /\ \A d \in SetOf(r.tg_chats) : att[<<r.chat_id, r.msg_id, d>>] > 0

\* C24: the destinations of a message are fixed before its first send: they
\* do not change while it is delivered; a user who subscribes during the
\* delivery does not receive the message, then or later (the watermark is
\* past it when the call returns); a user who unsubscribes during the
\* delivery still receives it.
C24_DestinationsFixed ==
    [][\A i \in Slots :
          /\ (Delivering(h[i]) /\ h'[i] # h[i] /\ h'[i].log # <<>>)
                => h'[i].tg_chats = h[i].tg_chats
          /\ FixedFanout(h'[i], state', subs', attempts')]_vars

\* The same, for the chats whose calls ran one after another with increasing ids.
FixedFanoutAlone ==
    [][\A i \in Slots :
          /\ (Delivering(h[i]) /\ h'[i] # h[i] /\ h'[i].log # <<>>)
                => h'[i].tg_chats = h[i].tg_chats
          /\ (h'[i].chat_id # None /\ obs'.ordered[h'[i].chat_id])
                => FixedFanout(h'[i], state', subs', attempts')]_vars

\* The updates the bot handles: commands, callbacks and texts of a user.
BotOps == {"start_cmd", "admin_add", "admin_text", "admin_del_chat"}

\* C25: an update whose sender is not the configured admin, or any update
\* when no admin is configured, changes neither the catalog (nor its file)
\* nor the pending admin actions; so do the subscribe and unsubscribe
\* callbacks of every user.
C25_OnlyAdminChangesCatalog ==
    [][/\ (/\ \E op \in BotOps : Calls(op)
           /\ (admin_chat_id = 0 \/ apilog'.last.user # admin_chat_id))
             => /\ catalog' = catalog /\ disk'.catalog = disk.catalog
                /\ pending_admin' = pending_admin
       /\ callbacks' # callbacks
             => /\ catalog' = catalog /\ disk'.catalog = disk.catalog
                /\ pending_admin' = pending_admin
       /\ pending_admin' \subseteq {admin_chat_id} \ {0}]_vars

\* The admin was asked for a chat id, and another user has sent a number:
\* the catalog is as it was and the admin's action is still pending.
C25_Witness ==
    /\ admin_chat_id # 0
    /\ apilog.last.op = "admin_text"
    /\ apilog.last.user # admin_chat_id
    /\ apilog.last.chat \notin GroupIds(catalog)
    /\ pending_admin = {admin_chat_id}

\* C26: a step of handle_message for chat C changes no subscription set, no
\* profile and no catalog entry (nor their files), and no watermark except,
\* when it commits, the watermark of C, which becomes the id of its message;
\* a call that discards its message changes no watermark; and every other
\* step (a catalog, subscription or bot operation) changes no watermark.
C26_EngineWritesOwnWatermarkOnly ==
    [][/\ \A i \in Slots :
             h'[i] # h[i]
                => /\ subs' = subs /\ catalog' = catalog
                   /\ disk'.subs = disk.subs /\ disk'.catalog = disk.catalog
                   /\ pending_admin' = pending_admin
                   /\ DOMAIN state' \subseteq DOMAIN state \cup {h[i].chat_id}
                   /\ \A c \in Chats :
                         get_last(state', c) # get_last(state, c)
                            => /\ Delivering(h[i]) /\ c = h[i].chat_id
                               /\ get_last(state', c) = h[i].msg_id
       /\ h' = h => (state' = state /\ disk'.state = disk.state)]_vars

\* A call for chat 2 has committed while chat 1 has a watermark, a user has a
\* profile and the catalog has entries: only the watermark of chat 2 moved.
C26_Witness ==
    /\ h[1].pc = "done" /\ h[1].outcome = "committed" /\ h[1].chat_id = 2
    /\ get_last(state, 2) = h[1].msg_id
    /\ get_last(state, 1) = 1
    /\ catalog # <<>>
    /\ \E u \in DOMAIN subs : Field(subs[u], "username") # Nil

====
